---- MODULE Spec2Model ----
(***************************************************************************)
(* The select() poller of src/src/ev_select.c: the four fd_set bitmaps,    *)
(* the bitmap operations registered in struct poller, select_init,         *)
(* select_term and select_poll with its dispatch scan.                     *)
(*                                                                         *)
(* An fd_set is modelled as the set of descriptor numbers whose bit is     *)
(* set.  The view of an fd_set as an array of int used by select_poll is   *)
(* modelled with int word i holding the bits of descriptors 32i .. 32i+31, *)
(* the layout of 32-bit and of little-endian 64-bit builds.                *)
(***************************************************************************)
EXTENDS Integers, Sequences, FiniteSets, TLC

(* ------------------------------------------------------------------ *)
(* Program constants                                                    *)
(* ------------------------------------------------------------------ *)
INTBITS == 5
FD_SETSIZE == 1024
SCHEDULER_RESOLUTION == 3
INT_MAX == 2147483647
INT_MIN == -2147483647 - 1
PREF_SELECT == 150

DIR_RD == "DIR_RD"
DIR_WR == "DIR_WR"
Dirs == {DIR_RD, DIR_WR}

FD_STCLOSE == "FD_STCLOSE"
FD_STREADY == "FD_STREADY"

(* ------------------------------------------------------------------ *)
(* Bounds of the model                                                  *)
(* ------------------------------------------------------------------ *)
\* global.maxsock: the largest descriptor ceiling of a run
MaxSock == 33

\* the descriptor numbers the application uses: the last bit of int word 0
\* and the first bit of int word 1
Fds == {31, 32}
\* the ceilings (maxfd) a run may have: one full int word, or a word and a part
MaxfdChoices == {2 ^ INTBITS, MaxSock}
\* the wait_time values handed to select_poll
WaitTimes == {INT_MIN, -1, 0, 1, 1500, INT_MAX - SCHEDULER_RESOLUTION, INT_MAX}

Pointers == {"ReadEvent", "WriteEvent", "StaticReadEvent", "StaticWriteEvent"}

VARIABLES
    StaticReadEvent,   \* wanted bitmap, read direction
    StaticWriteEvent,  \* wanted bitmap, write direction
    ReadEvent,         \* per-cycle snapshot / select() result, read direction
    WriteEvent,        \* per-cycle snapshot / select() result, write direction
    ptr,               \* the four static pointers: "NULL", "valid" or "dangling"
    pref,              \* p->pref
    maxfd,             \* the descriptor ceiling used by select_poll
    fdtab,             \* fdtab[fd].state
    pc,                \* "start", "idle", "select", "callback"
    wait_time,         \* select_poll's argument after the conversion
    delta,             \* struct timeval delta
    sel,               \* select_poll's argument wt and the arguments of select()
    status,            \* select()'s return value
    loop,              \* the scan's locals fds, fd, count and the direction reached
    lastOp,            \* the name of the operation the last step called, or "none"
    ret,               \* its return value: <<>> for none, <<0>> or <<1>>
    wanted,            \* history: is (fd, dir) wanted by the calls made so far
    fired,             \* history: callbacks invoked in the current cycle
    result,            \* history: the bitmaps as select() left them
    nowCount,          \* history: tv_now() calls in the current cycle
    freed              \* history: free() calls on a block that was not allocated

vars == <<StaticReadEvent, StaticWriteEvent, ReadEvent, WriteEvent, ptr, pref,
          maxfd, fdtab, pc, wait_time, delta, sel, status, loop, lastOp, ret,
          wanted, fired, result, nowCount, freed>>

(* ------------------------------------------------------------------ *)
(* fd_set macros                                                        *)
(* ------------------------------------------------------------------ *)
FD_ISSET(fd, ev) == fd \in ev
FD_SET(fd, ev) == ev \cup {fd}
FD_CLR(fd, ev) == ev \ {fd}

\* int word i of an fd_set, as the set of the descriptors whose bits it holds
IntWord(ev, i) == {fd \in ev : fd \div (2 ^ INTBITS) = i}

Bool2Int(b) == IF b THEN 1 ELSE 0

\* the four bitmaps as one record, the memory the operations act on
Mem == [sre |-> StaticReadEvent, swe |-> StaticWriteEvent,
        re |-> ReadEvent, we |-> WriteEvent]

NoOp == "none"
NoRet == <<>>
NoLoop == [fds |-> -1, fd |-> -1, count |-> -1, dir |-> "none"]
NoDelta == [tv_sec |-> 0, tv_usec |-> 0]
NoSel == [wt |-> 0, rd |-> "none", wr |-> "none", tmo |-> "none"]

(* ------------------------------------------------------------------ *)
(* Bitmap operations: each gives the memory after the call and the      *)
(* value returned                                                       *)
(* ------------------------------------------------------------------ *)
__fd_isset(fd, dir) ==
    IF dir = DIR_RD THEN Bool2Int(FD_ISSET(fd, StaticReadEvent))
    ELSE Bool2Int(FD_ISSET(fd, StaticWriteEvent))

__fd_set(fd, dir) ==
    IF dir = DIR_RD
    THEN [mem |-> [Mem EXCEPT !.sre = FD_SET(fd, @)], ret |-> NoRet]
    ELSE [mem |-> [Mem EXCEPT !.swe = FD_SET(fd, @)], ret |-> NoRet]

\* a plausible slip: the branches of the direction test exchanged
__fd_clr_wrongdir(fd, dir) ==
    IF dir = DIR_RD
    THEN [mem |-> [Mem EXCEPT !.swe = FD_CLR(fd, @)], ret |-> NoRet]
    ELSE [mem |-> [Mem EXCEPT !.sre = FD_CLR(fd, @)], ret |-> NoRet]

\* a plausible slip: the bit is cleared in the snapshot as well
__fd_clr_alias(fd, dir) ==
    IF dir = DIR_RD
    THEN [mem |-> [Mem EXCEPT !.sre = FD_CLR(fd, @), !.re = FD_CLR(fd, @)],
          ret |-> NoRet]
    ELSE [mem |-> [Mem EXCEPT !.swe = FD_CLR(fd, @), !.we = FD_CLR(fd, @)],
          ret |-> NoRet]

__fd_clr(fd, dir) ==
    IF dir = DIR_RD
    THEN [mem |-> [Mem EXCEPT !.sre = FD_CLR(fd, @)], ret |-> NoRet]
    ELSE [mem |-> [Mem EXCEPT !.swe = FD_CLR(fd, @)], ret |-> NoRet]

\* a plausible slip: the bit is set whatever ret says
__fd_cond_s_always(fd, dir) ==
    LET ev == IF dir = DIR_RD THEN StaticReadEvent ELSE StaticWriteEvent
        r == Bool2Int(FD_ISSET(fd, ev))
    IN  IF dir = DIR_RD
        THEN [mem |-> [Mem EXCEPT !.sre = FD_SET(fd, @)], ret |-> <<r>>]
        ELSE [mem |-> [Mem EXCEPT !.swe = FD_SET(fd, @)], ret |-> <<r>>]

__fd_cond_s(fd, dir) ==
    LET ev == IF dir = DIR_RD THEN StaticReadEvent ELSE StaticWriteEvent
        r == Bool2Int(~FD_ISSET(fd, ev))
    IN  IF r # 0
        THEN IF dir = DIR_RD
             THEN [mem |-> [Mem EXCEPT !.sre = FD_SET(fd, @)], ret |-> <<r>>]
             ELSE [mem |-> [Mem EXCEPT !.swe = FD_SET(fd, @)], ret |-> <<r>>]
        ELSE [mem |-> Mem, ret |-> <<r>>]

\* a plausible slip: the test of the bit negated as in __fd_cond_s
__fd_cond_c_negated(fd, dir) ==
    LET ev == IF dir = DIR_RD THEN StaticReadEvent ELSE StaticWriteEvent
        r == Bool2Int(~FD_ISSET(fd, ev))
    IN  IF r # 0
        THEN IF dir = DIR_RD
             THEN [mem |-> [Mem EXCEPT !.sre = FD_CLR(fd, @)], ret |-> <<r>>]
             ELSE [mem |-> [Mem EXCEPT !.swe = FD_CLR(fd, @)], ret |-> <<r>>]
        ELSE [mem |-> Mem, ret |-> <<r>>]

__fd_cond_c(fd, dir) ==
    LET ev == IF dir = DIR_RD THEN StaticReadEvent ELSE StaticWriteEvent
        r == Bool2Int(FD_ISSET(fd, ev))
    IN  IF r # 0
        THEN IF dir = DIR_RD
             THEN [mem |-> [Mem EXCEPT !.sre = FD_CLR(fd, @)], ret |-> <<r>>]
             ELSE [mem |-> [Mem EXCEPT !.swe = FD_CLR(fd, @)], ret |-> <<r>>]
        ELSE [mem |-> Mem, ret |-> <<r>>]

\* a plausible slip: the second FD_CLR left out
__fd_rem_readonly(fd) ==
    [mem |-> [Mem EXCEPT !.sre = FD_CLR(fd, @)], ret |-> NoRet]

__fd_rem(fd) ==
    [mem |-> [Mem EXCEPT !.sre = FD_CLR(fd, @), !.swe = FD_CLR(fd, @)],
     ret |-> NoRet]

(* ------------------------------------------------------------------ *)
(* select_poll: the conversion of wait_time                             *)
(* ------------------------------------------------------------------ *)
\* C's / and % on int, b > 0: the quotient is truncated towards zero
CDiv(a, b) == IF a >= 0 THEN a \div b ELSE (a + b - 1) \div b
CMod(a, b) == a - b * CDiv(a, b)

\* a + b on a 32-bit int, b >= 0, wrapped around on overflow
WrapAdd(a, b) == IF a > INT_MAX - b THEN INT_MIN + (a - (INT_MAX - b) - 1) ELSE a + b

Timeval(wt) == [tv_sec |-> CDiv(wt, 1000), tv_usec |-> CMod(wt, 1000) * 1000]

\* The outcomes of lines 177-184 and of the test of line 207 for the argument
\* wt: the local wait_time, delta and the timeout argument of select().  The
\* addition of line 181 overflows for wt > INT_MAX - SCHEDULER_RESOLUTION,
\* which is undefined: the build either wraps the sum, and the test of line
\* 207 then sees a negative value, or it wraps the sum and drops that test,
\* which no defined execution can fail once wait_time > 0 held.
ConvertTimeout(wt) ==
    IF wt > 0
    THEN LET w == WrapAdd(wt, SCHEDULER_RESOLUTION)
         IN  IF wt > INT_MAX - SCHEDULER_RESOLUTION
             THEN {[wait_time |-> w, delta |-> Timeval(w), tmo |-> "NULL"],
                   [wait_time |-> w, delta |-> Timeval(w), tmo |-> "delta"]}
             ELSE {[wait_time |-> w, delta |-> Timeval(w),
                    tmo |-> IF w >= 0 THEN "delta" ELSE "NULL"]}
    ELSE {[wait_time |-> wt, delta |-> NoDelta,
           tmo |-> IF wt >= 0 THEN "delta" ELSE "NULL"]}

(* ------------------------------------------------------------------ *)
(* select_poll: the copy of the wanted bitmaps                          *)
(* ------------------------------------------------------------------ *)
BITS_PER_INT == 8 * 4

\* a plausible slip: only the whole words below maxfd are copied
CopyWords_rounddown(mfd) == mfd \div BITS_PER_INT

\* the number of int words the loop of line 189 copies
CopyWords(mfd) == (mfd + FD_SETSIZE - 1) \div BITS_PER_INT

\* the destination after the loop: the words below n come from src
CopyInts(dst, src, n) ==
    {fd \in src : fd \div BITS_PER_INT < n} \cup {fd \in dst : fd \div BITS_PER_INT >= n}

\* a plausible slip: = for |=, the flag is that of the last word copied
NotNull_lastword(src, n) == \E fd \in src : fd \div BITS_PER_INT = n - 1

\* readnotnull / writenotnull: some copied word is not zero
NotNull(src, n) == \E fd \in src : fd \div BITS_PER_INT < n

\* a plausible slip: the operands of the assignment exchanged
CopyLoop_reversed(dst, src, n) ==
    [dst |-> dst, src |-> CopyInts(src, dst, n), notnull |-> NotNull(dst, n)]

\* one direction of the loop of lines 189-192: the two blocks after it and
\* readnotnull / writenotnull
CopyLoop(dst, src, n) ==
    [dst |-> CopyInts(dst, src, n), src |-> src, notnull |-> NotNull(src, n)]

(* ------------------------------------------------------------------ *)
(* select_poll: the dispatch scan of lines 214-234                      *)
(* ------------------------------------------------------------------ *)
\* fdtab[fd].state; a descriptor the application never used is closed
FdState(fd) == IF fd \in DOMAIN fdtab THEN fdtab[fd] ELSE FD_STCLOSE

\* a plausible slip: only the whole words below the ceiling are scanned
OuterCond_wholewords(fds) == (fds + 1) * (2 ^ INTBITS) <= maxfd

\* the outer loop's condition, line 214
OuterCond(fds) == fds * (2 ^ INTBITS) < maxfd

\* a plausible slip: only the read word is tested
WordIsZero_readonly(re, we, fds) == IntWord(re, fds) = {}

\* line 215: both result words are zero
WordIsZero(re, we, fds) == IntWord(re, fds) \cup IntWord(we, fds) = {}

\* a plausible slip: tv_now() placed after the test of status
NowCalls_ifready(n, st) == IF st <= 0 THEN n ELSE n + 1

\* line 209: tv_now(&now) is called once select() has returned, whatever
\* status is; n counts the calls of the cycle
NowCalls(n, st) == n + 1

\* a plausible slip: only a timeout ends the cycle, a failure is scanned
NothingReady_zeroonly(st) == st = 0

\* line 211: select() failed or timed out, select_poll returns
NothingReady(st) == st <= 0

\* the inner loop's condition, line 218
InnerCond(count, fd) == count # 0 /\ fd < maxfd

\* a plausible slip: the write direction is served first
FirstDir_write == DIR_WR

\* lines 222-232: the direction tested first for a descriptor
FirstDir == DIR_RD

OtherDir(dir) == IF dir = DIR_RD THEN DIR_WR ELSE DIR_RD

\* a plausible slip: the lifecycle state is tested for the first direction only
SkipClosed_firstonly(fd, dir) == dir = FirstDir /\ FdState(fd) = FD_STCLOSE

\* lines 223 and 229: the descriptor is closed, its callback is not invoked
SkipClosed(fd, dir) == FdState(fd) = FD_STCLOSE

Done == [done |-> TRUE, fds |-> -1, fd |-> -1, count |-> -1, dir |-> "none"]
Call(fds, fd, count, dir) ==
    [done |-> FALSE, fds |-> fds, fd |-> fd, count |-> count, dir |-> dir]

RECURSIVE ScanWords(_, _, _), ScanBits(_, _, _, _, _, _)

\* The scan from the test of direction dir of descriptor fd on, to the next
\* callback it invokes or to its end.
ScanBits(re, we, fds, fd, count, dir) ==
    IF InnerCond(count, fd)
    THEN IF FD_ISSET(fd, IF dir = DIR_RD THEN re ELSE we)
         THEN IF SkipClosed(fd, dir)
              THEN ScanBits(re, we, fds, fd + 1, count - 1, FirstDir)
              ELSE Call(fds, fd, count, dir)
         ELSE IF dir = FirstDir
              THEN ScanBits(re, we, fds, fd, count, OtherDir(dir))
              ELSE ScanBits(re, we, fds, fd + 1, count - 1, FirstDir)
    ELSE ScanWords(re, we, fds + 1)

\* The scan from word fds on
ScanWords(re, we, fds) ==
    IF OuterCond(fds)
    THEN IF WordIsZero(re, we, fds)
         THEN ScanWords(re, we, fds + 1)
         ELSE ScanBits(re, we, fds, fds * (2 ^ INTBITS), 2 ^ INTBITS, FirstDir)
    ELSE Done

\* a plausible slip: after the second callback of a descriptor the loop
\* counts down but stays on that descriptor
ScanResume_samefd(re, we, l) ==
    IF l.dir = FirstDir
    THEN ScanBits(re, we, l.fds, l.fd, l.count, OtherDir(l.dir))
    ELSE ScanBits(re, we, l.fds, l.fd, l.count - 1, FirstDir)

\* The scan resumed when the callback of (l.fd, l.dir) returns: after the
\* first direction's callback the other direction of the same descriptor is
\* tested, after the second one the loop goes to the next descriptor.
ScanResume(re, we, l) ==
    IF l.dir = FirstDir
    THEN ScanBits(re, we, l.fds, l.fd, l.count, OtherDir(l.dir))
    ELSE ScanBits(re, we, l.fds, l.fd + 1, l.count - 1, FirstDir)

RECURSIVE WordScanFrom(_, _, _)

\* the callbacks the scan invokes from r on when no callback changes fdtab
WordScanFrom(re, we, r) ==
    IF r.done THEN <<>>
    ELSE << <<r.fd, r.dir>> >> \o WordScanFrom(re, we, ScanResume(re, we, r))

\* the callbacks of a whole scan of lines 214-234
WordScanSeq(re, we) == WordScanFrom(re, we, ScanWords(re, we, 0))

(* ------------------------------------------------------------------ *)
(* select()                                                             *)
(* ------------------------------------------------------------------ *)
Below(ev, mfd) == {fd \in ev : fd < mfd}

\* What select(maxfd, rd, wr, NULL, tmo) may leave and return.  It reads and
\* writes only the bits below maxfd of a set it is given.  A positive status
\* is the number of bits left set; with status zero the sets it was given are
\* emptied; on failure they are left as they were.  A timeout with a negative
\* field is rejected, and without a timeout select() does not return zero.
SelectOutcomes(re, we, s, d) ==
    LET rin == IF s.rd = "NULL" THEN {} ELSE Below(re, maxfd)
        win == IF s.wr = "NULL" THEN {} ELSE Below(we, maxfd)
        invalid == s.tmo = "delta" /\ (d.tv_sec < 0 \/ d.tv_usec < 0)
    IN  {[status |-> -1, re |-> re, we |-> we]}
        \cup
        (IF invalid THEN {}
         ELSE {[status |-> Cardinality(rr) + Cardinality(ww),
                re |-> rr \cup (re \ rin), we |-> ww \cup (we \ win)] :
               <<rr, ww>> \in {x \in (SUBSET rin) \X (SUBSET win) :
                                  s.tmo = "NULL" => x[1] \cup x[2] # {}}})

(* ------------------------------------------------------------------ *)
(* State                                                                *)
(* ------------------------------------------------------------------ *)
Init ==
    /\ StaticReadEvent = {} /\ StaticWriteEvent = {}
    /\ ReadEvent = {} /\ WriteEvent = {}
    /\ ptr = [p \in Pointers |-> "NULL"]
    /\ pref = PREF_SELECT
    /\ maxfd \in MaxfdChoices
    /\ fdtab = [fd \in Fds |-> FD_STCLOSE]
    /\ pc = "start"
    /\ wait_time = 0 /\ delta = NoDelta /\ sel = NoSel /\ status = 0
    /\ loop = NoLoop
    /\ lastOp = NoOp /\ ret = NoRet
    /\ wanted = [x \in Fds \X Dirs |-> FALSE]
    /\ fired = <<>>
    /\ result = [re |-> {}, we |-> {}]
    /\ nowCount = 0
    /\ freed = FALSE

\* the bitmaps after a bitmap operation
SetMem(m) ==
    /\ StaticReadEvent' = m.sre /\ StaticWriteEvent' = m.swe
    /\ ReadEvent' = m.re /\ WriteEvent' = m.we

\* the four blocks are allocated
Usable == \A p \in Pointers : ptr[p] = "valid"

\* the application runs: between two cycles, or inside a callback
AppRuns == Usable /\ pc \in {"idle", "callback"}

PollVars == <<wait_time, delta, sel, status, loop, fired, result, nowCount>>
LifeVars == <<ptr, pref, maxfd, freed>>

(* ------------------------------------------------------------------ *)
(* Actions: the bitmap operations, called by the application            *)
(* ------------------------------------------------------------------ *)
BitmapOp(name, r, want) ==
    /\ AppRuns
    /\ SetMem(r.mem)
    /\ ret' = r.ret
    /\ lastOp' = name
    /\ wanted' = want
    /\ UNCHANGED <<fdtab, pc, PollVars, LifeVars>>

Set(fd, dir) ==
    BitmapOp("set", __fd_set(fd, dir), [wanted EXCEPT ![<<fd, dir>>] = TRUE])

Clear(fd, dir) ==
    BitmapOp("clr", __fd_clr(fd, dir), [wanted EXCEPT ![<<fd, dir>>] = FALSE])

CondSet(fd, dir) ==
    BitmapOp("cond_s", __fd_cond_s(fd, dir),
             [wanted EXCEPT ![<<fd, dir>>] = TRUE])

CondClear(fd, dir) ==
    BitmapOp("cond_c", __fd_cond_c(fd, dir),
             [wanted EXCEPT ![<<fd, dir>>] = FALSE])

Remove(fd) ==
    BitmapOp("rem", __fd_rem(fd),
             [x \in Fds \X Dirs |-> IF x[1] = fd THEN FALSE ELSE wanted[x]])

(* ------------------------------------------------------------------ *)
(* Actions: the descriptor table, owned by the application              *)
(* ------------------------------------------------------------------ *)
\* a descriptor below the ceiling is opened
FdOpen(fd) ==
    /\ AppRuns
    /\ fd < maxfd
    /\ fdtab[fd] = FD_STCLOSE
    /\ fdtab' = [fdtab EXCEPT ![fd] = FD_STREADY]
    /\ lastOp' = NoOp /\ ret' = NoRet
    /\ UNCHANGED <<StaticReadEvent, StaticWriteEvent, ReadEvent, WriteEvent,
                   wanted, pc, PollVars, LifeVars>>

\* a descriptor is marked closed
FdClose(fd) ==
    /\ AppRuns
    /\ fdtab[fd] # FD_STCLOSE
    /\ fdtab' = [fdtab EXCEPT ![fd] = FD_STCLOSE]
    /\ lastOp' = NoOp /\ ret' = NoRet
    /\ UNCHANGED <<StaticReadEvent, StaticWriteEvent, ReadEvent, WriteEvent,
                   wanted, pc, PollVars, LifeVars>>

(* ------------------------------------------------------------------ *)
(* Actions: select_init and select_term                                 *)
(* ------------------------------------------------------------------ *)
\* the order of the four calloc() calls of lines 121-131
AllocOrder == <<"ReadEvent", "WriteEvent", "StaticReadEvent", "StaticWriteEvent">>

\* a plausible slip: the failure path releases nothing
InitPtr_leak(failAt) ==
    [p \in Pointers |->
        LET k == CHOOSE i \in 1..4 : AllocOrder[i] = p
        IN  IF failAt = 0 \/ k < failAt THEN "valid"
            ELSE IF k = failAt THEN "NULL"
            ELSE ptr[p]]

\* the pointers after select_init when calloc() number failAt fails (0: none
\* does): the blocks allocated before it are released by lines 135-140 and
\* their pointers are left as they are, the failing one is NULL and the later
\* ones are not assigned
InitPtr(failAt) ==
    [p \in Pointers |->
        LET k == CHOOSE i \in 1..4 : AllocOrder[i] = p
        IN  IF failAt = 0 THEN "valid"
            ELSE IF k < failAt THEN "dangling"
            ELSE IF k = failAt THEN "NULL"
            ELSE ptr[p]]

select_init(failAt) ==
    /\ pc = "start"
    /\ ptr' = InitPtr(failAt)
    /\ IF failAt = 0
       THEN /\ pc' = "idle"
            /\ UNCHANGED pref
       ELSE /\ pc' = "start"
            /\ pref' = 0
    /\ ret' = <<Bool2Int(failAt = 0)>>
    /\ lastOp' = "init"
    /\ StaticReadEvent' = {} /\ StaticWriteEvent' = {}
    /\ ReadEvent' = {} /\ WriteEvent' = {}
    /\ wanted' = [x \in Fds \X Dirs |-> FALSE]
    /\ UNCHANGED <<maxfd, fdtab, freed, PollVars>>

\* free() is called on every pointer that is not NULL; the history of the
\* last cycle ends with the poller
select_term ==
    /\ pc \in {"start", "idle"}
    /\ ptr' = [p \in Pointers |-> IF ptr[p] = "NULL" THEN "NULL" ELSE "dangling"]
    /\ freed' = (freed \/ \E p \in Pointers : ptr[p] = "dangling")
    /\ pref' = 0
    /\ pc' = "start"
    /\ ret' = NoRet
    /\ lastOp' = "term"
    /\ StaticReadEvent' = {} /\ StaticWriteEvent' = {}
    /\ ReadEvent' = {} /\ WriteEvent' = {}
    /\ wanted' = [x \in Fds \X Dirs |-> FALSE]
    /\ status' = 0 /\ fired' = <<>> /\ nowCount' = 0
    /\ result' = [re |-> {}, we |-> {}]
    /\ UNCHANGED <<maxfd, fdtab, wait_time, delta, sel, loop>>

(* ------------------------------------------------------------------ *)
(* Actions: select_poll                                                 *)
(* ------------------------------------------------------------------ *)
\* lines 176-207: the conversion of the timeout, the copy of the wanted
\* bitmaps and the call of select()
PollEnter(wt) ==
    /\ Usable /\ pc = "idle"
    /\ LET rd == CopyLoop(ReadEvent, StaticReadEvent, CopyWords(maxfd))
           wr == CopyLoop(WriteEvent, StaticWriteEvent, CopyWords(maxfd))
       IN  /\ ReadEvent' = rd.dst /\ StaticReadEvent' = rd.src
           /\ WriteEvent' = wr.dst /\ StaticWriteEvent' = wr.src
           /\ \E c \in ConvertTimeout(wt) :
                 /\ wait_time' = c.wait_time
                 /\ delta' = c.delta
                 /\ sel' = [wt |-> wt,
                            rd |-> IF rd.notnull THEN "ReadEvent" ELSE "NULL",
                            wr |-> IF wr.notnull THEN "WriteEvent" ELSE "NULL",
                            tmo |-> c.tmo]
    /\ pc' = "select"
    /\ status' = 0 /\ loop' = NoLoop
    /\ fired' = <<>> /\ nowCount' = 0
    /\ result' = [re |-> {}, we |-> {}]
    /\ lastOp' = NoOp /\ ret' = NoRet
    /\ UNCHANGED <<wanted, fdtab, LifeVars>>

\* the scan reached r: a callback is invoked, or select_poll returns
Dispatch(r) ==
    IF r.done
    THEN /\ pc' = "idle"
         /\ loop' = NoLoop
         /\ UNCHANGED fired
    ELSE /\ pc' = "callback"
         /\ loop' = [fds |-> r.fds, fd |-> r.fd, count |-> r.count, dir |-> r.dir]
         /\ fired' = Append(fired, <<r.fd, r.dir>>)

\* lines 203-218: select() returns, the time is refreshed and the scan starts
SelectReturn ==
    /\ pc = "select"
    /\ \E o \in SelectOutcomes(ReadEvent, WriteEvent, sel, delta) :
          /\ status' = o.status
          /\ ReadEvent' = o.re /\ WriteEvent' = o.we
          /\ result' = [re |-> o.re, we |-> o.we]
          /\ nowCount' = NowCalls(nowCount, o.status)
          /\ IF NothingReady(o.status)
             THEN Dispatch(Done)
             ELSE Dispatch(ScanWords(o.re, o.we, 0))
    /\ wait_time' = 0 /\ delta' = NoDelta /\ sel' = NoSel
    /\ lastOp' = NoOp /\ ret' = NoRet
    /\ UNCHANGED <<StaticReadEvent, StaticWriteEvent, wanted, fdtab, LifeVars>>

\* lines 225-234: a callback returns and the scan goes on
CallbackReturn ==
    /\ pc = "callback"
    /\ Dispatch(ScanResume(ReadEvent, WriteEvent, loop))
    /\ lastOp' = NoOp /\ ret' = NoRet
    /\ UNCHANGED <<StaticReadEvent, StaticWriteEvent, ReadEvent, WriteEvent,
                   wanted, fdtab, wait_time, delta, sel, status, result,
                   nowCount, LifeVars>>

(* ------------------------------------------------------------------ *)
(* Specification                                                        *)
(* ------------------------------------------------------------------ *)
Next ==
    \/ \E failAt \in 0..4 : select_init(failAt)
    \/ select_term
    \/ \E fd \in Fds, dir \in Dirs : Set(fd, dir)
    \/ \E fd \in Fds, dir \in Dirs : Clear(fd, dir)
    \/ \E fd \in Fds, dir \in Dirs : CondSet(fd, dir)
    \/ \E fd \in Fds, dir \in Dirs : CondClear(fd, dir)
    \/ \E fd \in Fds : Remove(fd)
    \/ \E fd \in Fds : FdOpen(fd)
    \/ \E fd \in Fds : FdClose(fd)
    \/ \E wt \in WaitTimes : PollEnter(wt)
    \/ SelectReturn
    \/ CallbackReturn

Spec == Init /\ [][Next]_vars

\* Every callback returns: the step that takes its return is not put off
\* for ever.  Nothing is assumed of select(), which may block for ever.
SpecFair == Init /\ [][Next]_vars /\ WF_vars(CallbackReturn)

(* ------------------------------------------------------------------ *)
(* Properties                                                           *)
(* ------------------------------------------------------------------ *)
\* the poller is initialized and not terminated
Live == Usable /\ pc # "start"

\* the descriptors of the model below the ceiling
InRange == {fd \in Fds : fd < maxfd}

\* the wanted bitmaps as the set of the pairs whose bit is set
WantedBits ==
    {<<fd, DIR_RD>> : fd \in StaticReadEvent} \cup {<<fd, DIR_WR>> : fd \in StaticWriteEvent}

\* C1: for every descriptor below the ceiling and every direction, is_set is
\* true exactly when the last set or conditional_set of the pair has not been
\* followed by a clear, a conditional_clear or a remove; every bit is false
\* right after a successful initialize.
C1_WantedIffLastSet ==
    Live => \A fd \in InRange, dir \in Dirs :
                (__fd_isset(fd, dir) # 0) <=> wanted[<<fd, dir>>]

\* C1 witness: inside a callback, after a clear, one direction of descriptor
\* 31 is wanted and the other one is not
C1_Witness ==
    /\ Live /\ pc = "callback" /\ lastOp = "clr"
    /\ wanted[<<31, DIR_WR>>] /\ ~wanted[<<31, DIR_RD>>]
    /\ __fd_isset(31, DIR_WR) # 0 /\ __fd_isset(31, DIR_RD) = 0

\* C2: conditional_set returns true exactly when the bit was clear, and then
\* sets that bit and no other; when the bit was set it returns false and
\* leaves the wanted bitmaps as they were.
C2_CondSetEdge ==
    [][lastOp' = "cond_s" => \A fd \in Fds, dir \in Dirs :
          CondSet(fd, dir) =>
             LET was == <<fd, dir>> \in WantedBits
             IN  /\ ret' = <<Bool2Int(~was)>>
                 /\ WantedBits' = WantedBits \cup {<<fd, dir>>}
                 /\ was => (StaticReadEvent' = StaticReadEvent
                            /\ StaticWriteEvent' = StaticWriteEvent)]_vars

\* C2 witness: a conditional_set has returned false
C2_Witness == Live /\ lastOp = "cond_s" /\ ret = <<0>>

\* C3: conditional_clear returns true exactly when the bit was set, and then
\* clears that bit and no other; when the bit was clear it returns false and
\* leaves the wanted bitmaps as they were.
C3_CondClearEdge ==
    [][lastOp' = "cond_c" => \A fd \in Fds, dir \in Dirs :
          CondClear(fd, dir) =>
             LET was == <<fd, dir>> \in WantedBits
             IN  /\ ret' = <<Bool2Int(was)>>
                 /\ WantedBits' = WantedBits \ {<<fd, dir>>}
                 /\ ~was => (StaticReadEvent' = StaticReadEvent
                             /\ StaticWriteEvent' = StaticWriteEvent)]_vars

\* C3 witness: a conditional_clear has returned true
C3_Witness == Live /\ lastOp = "cond_c" /\ ret = <<1>>

\* C4: remove clears both directions of its descriptor whatever they were,
\* and leaves the other descriptors' bits alone; the snapshot a cycle takes
\* holds, for every descriptor, both directions as the calls made so far
\* left them, so none is seen with one direction removed and the other not.
C4_RemoveBothDirections ==
    [][/\ lastOp' = "rem" => \A fd \in Fds :
             Remove(fd) =>
                WantedBits' = {x \in WantedBits : x[1] # fd}
       /\ (pc = "idle" /\ pc' = "select") =>
             \A fd \in InRange :
                /\ FD_ISSET(fd, ReadEvent') <=> wanted[<<fd, DIR_RD>>]
                /\ FD_ISSET(fd, WriteEvent') <=> wanted[<<fd, DIR_WR>>]]_vars

\* C4 witness: the callback of descriptor 31, which was ready in both
\* directions, has called remove and neither direction is wanted any more
C4_Witness ==
    /\ Live /\ pc = "callback" /\ lastOp = "rem" /\ loop.fd = 31
    /\ 31 \in result.re /\ 31 \in result.we
    /\ __fd_isset(31, DIR_RD) = 0 /\ __fd_isset(31, DIR_WR) = 0

\* the callbacks of fired, as a set
FiredSet == {fired[i] : i \in DOMAIN fired}

\* the (descriptor, direction) pairs a result marks ready
ReadyBits(res) == {<<fd, DIR_RD>> : fd \in res.re} \cup {<<fd, DIR_WR>> : fd \in res.we}

\* C5: for a descriptor the result marks ready in both directions, the write
\* callback is invoked only after the read callback of the same descriptor
\* was invoked in that cycle.
C5_ReadBeforeWrite ==
    \A i \in DOMAIN fired :
        (fired[i][2] = DIR_WR /\ fired[i][1] \in result.re) =>
            \E j \in 1..(i - 1) : fired[j] = <<fired[i][1], DIR_RD>>

\* C5 witness: descriptor 31 was ready in both directions and both of its
\* callbacks have been invoked
C5_Witness ==
    /\ Live /\ 31 \in result.re /\ 31 \in result.we
    /\ Len(fired) >= 2
    /\ fired[1] = <<31, DIR_RD>> /\ fired[2] = <<31, DIR_WR>>

\* C6: the descriptor of a callback is not closed at the moment the callback
\* is invoked.
C6_NoCallbackOnClosed ==
    [][(fired' # fired /\ fired' # <<>>) =>
          LET fd == fired'[Len(fired')][1]
          IN  fd \in DOMAIN fdtab' /\ fdtab'[fd] # FD_STCLOSE]_vars

\* C6 witness: the cycle is over; descriptor 31 was ready in both directions,
\* its read callback closed it and its write callback was not invoked
C6_Witness ==
    /\ Live /\ pc = "idle" /\ status > 0
    /\ 31 \in result.re /\ 31 \in result.we
    /\ fired = << <<31, DIR_RD>> >>

\* C7: while a cycle dispatches, the bitmaps it scans stay as select() left
\* them whatever the callbacks do to the wanted bitmaps, and only pairs that
\* result marks ready are dispatched; the snapshot of the next cycle holds
\* the wanted bits as the callbacks left them.
C7_OpsInCallbackNextCycle ==
    /\ pc = "callback" =>
          /\ ReadEvent = result.re /\ WriteEvent = result.we
          /\ FiredSet \subseteq ReadyBits(result)
    /\ pc = "select" =>
          \A fd \in InRange :
             /\ FD_ISSET(fd, ReadEvent) <=> wanted[<<fd, DIR_RD>>]
             /\ FD_ISSET(fd, WriteEvent) <=> wanted[<<fd, DIR_WR>>]

\* C7 witness: the callback of (32, read) has just been invoked although the
\* callback of descriptor 31 cleared that pair earlier in the cycle
C7_Witness ==
    /\ Live /\ pc = "callback" /\ lastOp = "none"
    /\ fired = << <<31, DIR_RD>>, <<32, DIR_RD>> >>
    /\ ~wanted[<<32, DIR_RD>>] /\ __fd_isset(32, DIR_RD) = 0

\* the place of a pair in the order of the scan
Pos(x) == 2 * x[1] + (IF x[2] = DIR_RD THEN 0 ELSE 1)

\* the pairs after place p that res marks ready, below the ceiling, whose
\* descriptor is open
Eligible(res, p) ==
    {x \in ReadyBits(res) : Pos(x) > p /\ x[1] < maxfd /\ FdState(x[1]) # FD_STCLOSE}

\* the first pair of a set in the order of the scan
First(S) == CHOOSE x \in S : \A y \in S : Pos(x) <= Pos(y)

\* C8: in a cycle with a positive status, each step of the scan invokes the
\* callback of the next pair that the result marks ready and whose descriptor
\* is open at that moment, and the cycle ends when there is none; so a
\* callback is invoked once for such a pair and never for another one.
C8_ExactlyOncePerReadyOpen ==
    [][((pc = "select" /\ status' > 0) \/ (pc = "callback" /\ (fired' # fired \/ pc' = "idle")))
       => LET p == IF pc = "select" THEN -1 ELSE Pos(<<loop.fd, loop.dir>>)
              E == Eligible(result', p)
          IN  IF E = {}
              THEN pc' = "idle" /\ fired' = fired
              ELSE /\ pc' = "callback"
                   /\ fired' = Append(fired, First(E))
                   /\ First(E) \notin FiredSet]_vars

\* C8 witness: only (31, read) was reported ready and exactly its callback
\* was invoked in the cycle
C8_Witness ==
    /\ Live /\ pc = "idle" /\ status = 1
    /\ result = [re |-> {31}, we |-> {}]
    /\ fired = << <<31, DIR_RD>> >>

RECURSIVE NaiveScan(_, _, _)

\* the reference scan: every descriptor from fd to the ceiling, bit by bit,
\* read before write, a closed descriptor passed over
NaiveScan(re, we, fd) ==
    IF fd >= maxfd THEN <<>>
    ELSE (IF fd \in re /\ FdState(fd) # FD_STCLOSE THEN << <<fd, DIR_RD>> >> ELSE <<>>)
         \o (IF fd \in we /\ FdState(fd) # FD_STCLOSE THEN << <<fd, DIR_WR>> >> ELSE <<>>)
         \o NaiveScan(re, we, fd + 1)

\* C9: for the result bitmaps, the descriptor states and the ceiling of every
\* state that a step other than a bitmap operation reaches (a bitmap
\* operation changes none of them), the scan by words invokes the same
\* callbacks in the same order as the scan bit by bit.
C9_WordScanEqualsNaive ==
    (Live /\ lastOp = "none") => WordScanSeq(ReadEvent, WriteEvent) = NaiveScan(ReadEvent, WriteEvent, 0)

\* C9 witness: the ceiling is not a multiple of the word size, word 0 is zero
\* in both results and is skipped, and the callback of (32, write), in word
\* 1, is running
C9_Witness ==
    /\ Live /\ pc = "callback" /\ maxfd % (2 ^ INTBITS) # 0
    /\ IntWord(ReadEvent, 0) \cup IntWord(WriteEvent, 0) = {}
    /\ fired = << <<32, DIR_WR>> >>

\* wt + SCHEDULER_RESOLUTION milliseconds, in whole seconds and in the
\* microseconds of the rest, computed without the sum
ExactSec(wt) == (wt \div 1000) + (((wt % 1000) + SCHEDULER_RESOLUTION) \div 1000)
ExactUsec(wt) == (((wt % 1000) + SCHEDULER_RESOLUTION) % 1000) * 1000

\* C10: select() is given a zero timeout for wait_time 0, no timeout for a
\* negative wait_time and, for every positive wait_time, the timeout of
\* wait_time + SCHEDULER_RESOLUTION milliseconds split into seconds and
\* microseconds, the microseconds in 0 .. 999999.
C10_TimeoutConversion ==
    pc = "select" =>
        /\ sel.wt = 0 => (sel.tmo = "delta" /\ delta = [tv_sec |-> 0, tv_usec |-> 0])
        /\ sel.wt < 0 => sel.tmo = "NULL"
        /\ sel.wt > 0 =>
              /\ sel.tmo = "delta"
              /\ delta.tv_sec = ExactSec(sel.wt)
              /\ delta.tv_usec = ExactUsec(sel.wt)
              /\ 0 <= delta.tv_usec /\ delta.tv_usec < 1000000

\* C11: when select() returns a negative status or zero, the cycle ends at
\* once: select_poll returns without a second select(), no callback is
\* invoked whatever the snapshot holds, and the wanted bitmaps are as they
\* were.
C11_NoDispatchWithoutReady ==
    [][(pc = "select" /\ status' <= 0) =>
          /\ pc' = "idle"
          /\ fired' = <<>>
          /\ StaticReadEvent' = StaticReadEvent
          /\ StaticWriteEvent' = StaticWriteEvent]_vars

\* C11 witness: select() failed and left the snapshot of an open descriptor
\* set; the cycle is over and no callback was invoked
C11_Witness ==
    /\ Live /\ pc = "idle" /\ lastOp = "none" /\ status < 0
    /\ 31 \in ReadEvent /\ FdState(31) # FD_STCLOSE
    /\ fired = <<>>

\* the blocks select_init has allocated when calloc() number failAt fails
AllocatedBefore(failAt) == {AllocOrder[i] : i \in 1..(failAt - 1)}

AfterInit == pc # "start" \/ lastOp = "init"

\* C13: select_term called after a select_init, failed at any allocation or
\* successful, calls free() on no block that was released before or never
\* allocated, leaves no block allocated and leaves pref at zero.
C13_TerminateAfterInit ==
    [][(lastOp' = "term" /\ AfterInit) =>
          /\ \A p \in Pointers : ptr[p] # "dangling"
          /\ \A p \in Pointers : ptr'[p] # "valid"
          /\ pref' = 0]_vars

\* C14: when select() is called, the read and the write snapshot hold, for
\* every descriptor below the ceiling, the bit of the wanted bitmap of that
\* direction; and what select() writes into the snapshots changes no bit of
\* the wanted bitmaps.
C14_SnapshotIsCopy ==
    [][/\ pc' = "select" =>
             /\ Below(ReadEvent', maxfd) = Below(StaticReadEvent', maxfd)
             /\ Below(WriteEvent', maxfd) = Below(StaticWriteEvent', maxfd)
       /\ pc = "select" =>
             /\ StaticReadEvent' = StaticReadEvent
             /\ StaticWriteEvent' = StaticWriteEvent]_vars

\* C14 witness: with a ceiling that is not a multiple of the word size,
\* select() has cleared descriptor 31 in the read snapshot and left 32; both
\* are still wanted
C14_Witness ==
    /\ Live /\ pc = "callback" /\ lastOp = "none" /\ maxfd = MaxSock
    /\ fired = << <<32, DIR_RD>> >>
    /\ StaticReadEvent = {31, 32} /\ ReadEvent = {32}

\* C15: a step of select_poll (its entry with the copy, the return of
\* select(), whatever the result and the status, and each step of the scan)
\* leaves the wanted bitmaps as they were, and so does every step that is
\* not a bitmap operation, select_init or select_term: a cycle whose
\* callbacks call no bitmap operation ends with the wanted bitmaps it
\* started with.
C15_PollKeepsWanted ==
    [][lastOp' = "none" =>
          /\ StaticReadEvent' = StaticReadEvent
          /\ StaticWriteEvent' = StaticWriteEvent]_vars

\* C15 witness: a cycle is over in which descriptor 31 was reported ready
\* for reading and descriptor 32 was not; both are wanted as before
C15_Witness ==
    /\ Live /\ pc = "idle" /\ lastOp = "none" /\ status = 1
    /\ maxfd = MaxSock
    /\ result = [re |-> {31}, we |-> {}]
    /\ fired = << <<31, DIR_RD>> >>
    /\ StaticReadEvent = {31, 32} /\ StaticWriteEvent = {}

\* C16: in every cycle tv_now() is called exactly once: not before select()
\* returns, once when it returns, for a positive, a zero and a negative
\* status alike, and not again while the callbacks run; it has been called
\* when the first callback of the cycle is invoked.
C16_TimeRefreshedOnce ==
    [][/\ pc' = "select" => nowCount' = 0
       /\ pc = "select" => nowCount' = nowCount + 1
       /\ pc = "callback" => nowCount' = nowCount
       /\ (fired' # fired /\ fired' # <<>>) => nowCount' = 1
       /\ (pc \in {"select", "callback"} /\ pc' = "idle") => nowCount' = 1]_vars

\* C16 witness: a cycle in which select() failed is over and the time was
\* refreshed once
C16_Witness ==
    /\ Live /\ pc = "idle" /\ lastOp = "none" /\ status < 0
    /\ fired = <<>> /\ nowCount = 1

\* the callbacks of direction dir invoked in the current cycle
FiredDir(dir) == {x \in FiredSet : x[2] = dir}

\* the descriptors the loop of line 189 copies
CopiedRange == CopyWords(maxfd) * BITS_PER_INT

C18_BoundViolationRejected ==
    [][/\ lastOp' \in {"set", "cond_s"} =>
             \A fd \in Fds \ InRange, dir \in Dirs :
                (Set(fd, dir) \/ CondSet(fd, dir)) =>
                   /\ __fd_isset(fd, dir)' = 0
                   /\ Below(StaticReadEvent', maxfd) = Below(StaticReadEvent, maxfd)
                   /\ Below(StaticWriteEvent', maxfd) = Below(StaticWriteEvent, maxfd)
       /\ \A x \in FiredSet' : x[1] < maxfd]_vars

\* C19: the callbacks of a cycle are invoked in strictly ascending order of
\* the scan (ascending descriptor number, for one descriptor read before
\* write), so each pair at most once and at most two per descriptor below
\* the ceiling; and when every callback returns, a dispatch pass that has
\* started comes to its end, whatever the callbacks close or change.
C19_AscendingAndTerminates ==
    /\ [](\A i, j \in DOMAIN fired : i < j => Pos(fired[i]) < Pos(fired[j]))
    /\ [](Len(fired) <= 2 * maxfd)
    /\ (pc = "callback") ~> (pc = "idle")

\* C19 witness: the pass is over; the read callback of descriptor 31 closed
\* it, so its write callback was passed over, and the callback of
\* descriptor 32 came after it
C19_Witness ==
    /\ Live /\ pc = "idle" /\ status > 0 /\ maxfd = MaxSock
    /\ 31 \in result.we /\ FdState(31) = FD_STCLOSE
    /\ fired = << <<31, DIR_RD>>, <<32, DIR_RD>> >>

\* C20: after every sequence of select_init and select_term calls, free()
\* has been called on no block that was released before, no pointer refers
\* to a released block as if it were allocated, and after select_term no
\* block is allocated.
C20_NoDoubleFree ==
    /\ ~freed
    /\ \A p \in Pointers : ptr[p] # "dangling"
    /\ lastOp = "term" => \A p \in Pointers : ptr[p] # "valid"

====
